---- MODULE Spec2Model ----
(***************************************************************************)
(* Model of packages/typescript-vfs/src/index.ts: the in-memory System     *)
(* (createSystem), the compiler host with its SourceFile cache             *)
(* (createVirtualCompilerHost), the language service host with project     *)
(* and script versions (createVirtualLanguageServiceHost) and the          *)
(* environment facade (createVirtualTypeScriptEnvironment).                *)
(*                                                                         *)
(* Strings are sequences of characters.  A JavaScript value that may be    *)
(* undefined is a sequence of length at most one: <<>> is undefined and    *)
(* <<v>> is the value v.  A Map is a function whose DOMAIN is its key set. *)
(***************************************************************************)
EXTENDS Integers, Sequences, FiniteSets

\* ---------------------------------------------------------------- bounds
MaxLen == 1          \* longest file content
MaxCalls == 3        \* most calls that change files: createFile, updateFile, writeFile
MaxDiagnostics == 1  \* most diagnostics of the options validation pass
MaxDirLen == 2       \* longest directory argument of directoryExists / readDirectory
MaxSystems == 2      \* most stores createSystem builds from the caller's one Map
MaxFetches == 4      \* createDefaultMapFromCDN: most lib files of a target it is called with
MaxCdnCalls == 2     \* createDefaultMapFromCDN: most calls, one after the other

Alphabet == {"a", "b"}
PathA == <<"/", "a">>
PathB == <<"/", "b">>
Paths == {PathA, PathB}

\* ScriptTarget values of the engine: ES3 is 0 (falsy), ES2015 is 2
ES3 == 0
ES2015 == 2

Undefined == <<>>
Some(v) == <<v>>

Strings(n) == UNION {[1..k -> Alphabet] : k \in 0..n}

\* File contents: the prefixes "", "a", "ab", "aba", ... of at most MaxLen characters
Word(n) == [i \in 1..n |-> IF i % 2 = 1 THEN "a" ELSE "b"]
Contents == {Word(n) : n \in 0..MaxLen}

\* Replacement fragments of updateFile: every string of at most one character
Fragments == Strings(1)

\* ------------------------------------------------------- string helpers
\* String.prototype.slice(from, to) for 0 <= from, to (clamped to the length)
Min(a, b) == IF a < b THEN a ELSE b
Slice(s, from, to) ==
  LET f == Min(from, Len(s))
      t == Min(to, Len(s))
  IN  IF f >= t THEN <<>> ELSE SubSeq(s, f + 1, t)

\* String.prototype.slice(from)
SliceFrom(s, from) == Slice(s, from, Len(s))

\* Number.prototype.toString(): the decimal digits of a natural number
Digit(d) == <<"0", "1", "2", "3", "4", "5", "6", "7", "8", "9">>[d + 1]
RECURSIVE toString(_)
toString(n) == IF n < 10 THEN <<Digit(n)>> ELSE toString(n \div 10) \o <<Digit(n % 10)>>

\* truthiness of a string-or-undefined value: undefined and '' are falsy
Truthy(v) == v # Undefined /\ Len(v[1]) > 0

Range(s) == {s[i] : i \in 1..Len(s)}

\* a test for equality instead of a prefix
startsWithWhole(s, searchString) == s = searchString

\* String.prototype.startsWith(searchString)
startsWith(s, searchString) ==
  Len(searchString) <= Len(s) /\ SubSeq(s, 1, Len(searchString)) = searchString

VARIABLES
  phase,               \* "start": sys exists, environment not yet built; "ready"; "failed"
  files,               \* createSystem: the private Map fileName -> contents
  rootFiles,           \* argument rootFiles of createVirtualTypeScriptEnvironment
  optionsTarget,       \* compilerOptions.target given by the caller (may be undefined)
  diagnostics,         \* number of diagnostics getCompilerOptionsDiagnostics reports
  sourceFiles,         \* createVirtualCompilerHost: Map fileName -> SourceFile
  fileNames,           \* createVirtualLanguageServiceHost: the root file list
  fileVersions,        \* createVirtualLanguageServiceHost: Map fileName -> version string
  projectVersion,      \* createVirtualLanguageServiceHost: the counter
  program,             \* language service: source files of its current program
  lastProjectVersion,  \* language service: project version its program was built at
  writes,              \* number of direct sys.writeFile calls so far
  mutations,           \* number of createFile and updateFile calls that returned
  lastMutation,        \* Map fileName -> the number of the last such call on it
  lastCall             \* the last call of the environment's constructor, createFile or
                       \* updateFile: its name, its path, whether it threw

\* createSystem looked at by itself: the caller's Map and the stores built from it
VARIABLES
  heap,                \* the Map objects: reference -> Map fileName -> contents
  systems,             \* systems[i]: the reference of the private Map of the i-th store
  thrown               \* the message of the Error the last call on a store threw, if any

\* createVirtualCompilerHost looked at by itself, over files and sourceFiles
VARIABLES
  returned,            \* what the last vHost.updateFile returned, if one was called
  everCached           \* the paths an updateFile or a getSourceFile miss has cached so far

\* knownLibFilesForTarget, createDefaultMapFromNodeModules, createDefaultMapFromCDN
VARIABLES
  target,              \* ts.ScriptTarget[target]: the name of the target argument
  libs,                \* what knownLibFilesForTarget returned, once it was called
  fsMap,               \* the Map being filled: '/' + lib -> text
  libPc,               \* where the call stands
  version,             \* createDefaultMapFromCDN: the version argument
  cache,               \* createDefaultMapFromCDN: the cache argument
  lzstring,            \* createDefaultMapFromCDN: whether lzstring was passed
  globalName,          \* the global variable `name` of the host, if it has one
  storage,             \* localStorage: Map key -> value
  inFlight,            \* the libs whose fetch has not resolved yet
  texts,               \* Map lib -> the text its promise resolved with
  fetched,             \* the libs fetched by the call under way or just ended
  callNo               \* how many createDefaultMapFromCDN calls have started

envVars == <<phase, files, rootFiles, optionsTarget, diagnostics, sourceFiles, fileNames,
             fileVersions, projectVersion, program, lastProjectVersion, writes, mutations,
             lastMutation, lastCall>>
sysVars == <<heap, systems, thrown>>
hostVars == <<returned, everCached>>
libVars == <<target, libs, fsMap, libPc>>
cdnVars == <<version, cache, lzstring, globalName, storage, inFlight, texts, fetched, callNo>>
otherVars == <<sysVars, hostVars, libVars, cdnVars>>
vars == <<envVars, otherVars>>

Call(op, fileName, raised) == [op |-> op, fileName |-> fileName, raised |-> raised]

\* ------------------------------------------------------------ Map helpers
EmptyMap == [k \in {} |-> <<>>]
MapHas(m, k) == k \in DOMAIN m
MapGet(m, k) == IF k \in DOMAIN m THEN Some(m[k]) ELSE Undefined
MapSet(m, k, v) == [x \in (DOMAIN m) \cup {k} |-> IF x = k THEN v ELSE m[x]]

\* ------------------------------------------------------------- createSystem
fileExists(fileName) == MapHas(files, fileName)
readFile(fileName) == MapGet(files, fileName)
writeFile(fs, fileName, contents) == MapSet(fs, fileName, contents)

\* Array.from(files.keys()).some(path => path.startsWith(directory))
directoryExists(directory) == \E path \in DOMAIN files : startsWith(path, directory)

\* directory === '/' ? Array.from(files.keys()) : [] -- the paths as a set: the
\* Map is modelled without its insertion order
readDirectory(directory) == IF directory = <<"/">> THEN DOMAIN files ELSE {}

\* the directory arguments: every string of '/', 'a', 'b' of at most MaxDirLen characters
Directories == UNION {[1..k -> {"/"} \cup Alphabet] : k \in 0..MaxDirLen}

\* --------------------------------------------------- compiler options
\* { ...defaultCompilerOptions(ts), ...compilerOptions }.target
mergedTarget == IF optionsTarget = Undefined THEN ES2015 ELSE optionsTarget[1]

\* compilerOptions.target || defaultCompilerOptions(ts).target, on the merged options
getSourceFileTarget == IF mergedTarget # 0 THEN mergedTarget ELSE ES2015

\* ts.createSourceFile(fileName, text, languageVersion, false)
createSourceFile(fileName, text, languageVersion) ==
  [fileName |-> fileName, text |-> text, languageVersion |-> languageVersion]

\* ---------------------------------------- createVirtualLanguageServiceHost
getProjectVersion == toString(projectVersion)
getScriptFileNames == fileNames

getScriptSnapshot(fileName) ==
  LET contents == readFile(fileName)
  IN  IF Truthy(contents) THEN contents ELSE Undefined

\* a fallback to the project version instead of '0'
getScriptVersionOrProject(fileName) ==
  LET v == MapGet(fileVersions, fileName)
  IN  IF Truthy(v) THEN v[1] ELSE getProjectVersion

getScriptVersion(fileName) ==
  LET v == MapGet(fileVersions, fileName)
  IN  IF Truthy(v) THEN v[1] ELSE <<"0">>

\* ------------------------------------------------ createVirtualCompilerHost
\* save(sourceFile): sourceFiles.set(sourceFile.fileName, sourceFile)
save(units, sourceFile) == MapSet(units, sourceFile.fileName, sourceFile)

\* the has() test made after the set
alreadyExistsAfterSet(sourceFile) ==
  MapHas(MapSet(sourceFiles, sourceFile.fileName, sourceFile), sourceFile.fileName)

\* vHost.updateFile: the value it returns
alreadyExists(sourceFile) == MapHas(sourceFiles, sourceFile.fileName)

\* a vHost.updateFile that caches the file and forgets to write the store
HostWriteSkipped(fs, sourceFile) == fs

\* vHost.updateFile: sys.writeFile(sourceFile.fileName, sourceFile.text)
HostWrite(fs, sourceFile) == writeFile(fs, sourceFile.fileName, sourceFile.text)

\* ------------------------------------------------- language service (engine)
\* What createLanguageService(languageServiceHost) keeps between calls: the
\* source files of its program and the project version the program was built
\* at.  getProgram() first synchronizes with the host: nothing is re-read when
\* getProjectVersion() is the version of the last synchronization; otherwise
\* the program holds every name of getScriptFileNames() that has a script
\* snapshot, and a file whose getScriptVersion() did not change keeps its old
\* source file.
NewProgram(names) ==
  [f \in {g \in Range(names) : getScriptSnapshot(g) # Undefined} |->
     IF f \in DOMAIN program /\ program[f].version = getScriptVersion(f)
     THEN program[f]
     ELSE [text |-> getScriptSnapshot(f)[1], version |-> getScriptVersion(f)]]

SyncedProgram(names) ==
  IF lastProjectVersion = Some(getProjectVersion) THEN program ELSE NewProgram(names)

\* languageService.getProgram()!.getSourceFile(fileName)
getProgramSourceFile(fileName) == MapGet(SyncedProgram(fileNames), fileName)

\* ----------------------------------- createVirtualLanguageServiceHost.updateFile
\* a counter bumped in both host layers
NextProjectVersionTwice(pv) == pv + 2

\* projectVersion++
NextProjectVersion(pv) == pv + 1

\* the stamp taken before the increment
StampVersionBefore(versions, fileName, pv) == MapSet(versions, fileName, toString(pv - 1))

\* fileVersions.set(sourceFile.fileName, projectVersion.toString()), pv already incremented
StampVersion(versions, fileName, pv) == MapSet(versions, fileName, toString(pv))

\* a push without the includes test
PushFileNameAlways(names, fileName) == Append(names, fileName)

\* if (!fileNames.includes(fileName)) fileNames.push(fileName)
PushFileName(names, fileName) ==
  IF fileName \in Range(names) THEN names ELSE Append(names, fileName)

\* lsHost.updateFile(sourceFile), with the vHost.updateFile it ends in
LsUpdateFile(sourceFile) ==
  /\ projectVersion' = NextProjectVersion(projectVersion)
  /\ fileVersions' = StampVersion(fileVersions, sourceFile.fileName, projectVersion')
  /\ fileNames' = PushFileName(fileNames, sourceFile.fileName)
  /\ files' = HostWrite(files, sourceFile)
  /\ sourceFiles' = save(sourceFiles, sourceFile)

\* ------------------------------------- createVirtualTypeScriptEnvironment
\* a test that lets a single diagnostic pass
ConstructionThrowsOnMany(n) == n > 1

\* if (diagnostics.length) throw
ConstructionThrows(n) == n # 0

NoArg == <<>>

\* bookkeeping of a createFile or updateFile call on fileName that returned
Returned(fileName) ==
  /\ mutations' = mutations + 1
  /\ lastMutation' = MapSet(lastMutation, fileName, mutations')

\* the paths that went through createFile or updateFile
routed == DOMAIN lastMutation

CreateEnvironment ==
  /\ phase = "start"
  /\ fileNames' = rootFiles
  /\ program' = SyncedProgram(rootFiles)
  /\ lastProjectVersion' = Some(getProjectVersion)
  /\ phase' = IF ConstructionThrows(diagnostics) THEN "failed" ELSE "ready"
  /\ lastCall' = Call("createVirtualTypeScriptEnvironment", NoArg,
                      ConstructionThrows(diagnostics))
  /\ UNCHANGED <<files, rootFiles, optionsTarget, diagnostics, sourceFiles,
                 fileVersions, projectVersion, writes, mutations, lastMutation>>
  /\ UNCHANGED otherVars

CreateFile(fileName, content) ==
  /\ phase = "ready"
  /\ mutations + writes < MaxCalls
  /\ LsUpdateFile(createSourceFile(fileName, content, mergedTarget))
  /\ Returned(fileName)
  /\ lastCall' = Call("createFile", fileName, FALSE)
  /\ UNCHANGED <<phase, rootFiles, optionsTarget, diagnostics, program,
                 lastProjectVersion, writes>>
  /\ UNCHANGED otherVars

\* a missing previous source file read as an empty text
PrevFullContentsOrEmpty(prevSourceFile) ==
  IF prevSourceFile = Undefined THEN Some(<<>>) ELSE Some(prevSourceFile[1].text)

\* prevSourceFile.text: reading .text of undefined throws
PrevFullContents(prevSourceFile) ==
  IF prevSourceFile = Undefined THEN Undefined ELSE Some(prevSourceFile[1].text)

\* prevFullContents.slice(0, start) + content + prevFullContents.slice(start + length)
NewText(prevFullContents, content, start, length) ==
  Slice(prevFullContents, 0, start) \o content \o SliceFrom(prevFullContents, start + length)

\* the TextSpan lies inside the previous text
SpanInRange(text, start, length) == start + length <= Len(text)

\* updateFile(fileName, content, prevTextSpan).  rejects: whether the engine's
\* updateSourceFile throws when handed a span outside the previous text.
UpdateFile(fileName, content, start, length, rejects) ==
  /\ phase = "ready"
  /\ LET synced == SyncedProgram(fileNames)
         prevFullContents == PrevFullContents(MapGet(synced, fileName))
         throws == \/ prevFullContents = Undefined
                   \/ ~SpanInRange(prevFullContents[1], start, length) /\ rejects
     IN  /\ prevFullContents # Undefined =>
              /\ SpanInRange(prevFullContents[1], start, length) => ~rejects
              /\ NewText(prevFullContents[1], content, start, length) \in Contents
         /\ program' = synced
         /\ lastProjectVersion' = Some(getProjectVersion)
         /\ lastCall' = Call("updateFile", fileName, throws)
         /\ IF throws
            THEN UNCHANGED <<files, sourceFiles, fileNames, fileVersions,
                             projectVersion, mutations, lastMutation>>
            ELSE /\ mutations + writes < MaxCalls
                 /\ Returned(fileName)
                 /\ LsUpdateFile(createSourceFile(fileName,
                       NewText(prevFullContents[1], content, start, length), mergedTarget))
  /\ UNCHANGED <<phase, rootFiles, optionsTarget, diagnostics, writes>>
  /\ UNCHANGED otherVars

\* env.sys.writeFile(fileName, contents); compilerHost.writeFile and
\* languageServiceHost.writeFile are the same function.  A write made before
\* the environment exists is a different Map handed to createSystem.
SysWriteFile(fileName, contents) ==
  /\ phase = "ready"
  /\ mutations + writes < MaxCalls
  /\ files' = writeFile(files, fileName, contents)
  /\ writes' = writes + 1
  /\ UNCHANGED <<phase, rootFiles, optionsTarget, diagnostics, sourceFiles, fileNames,
                 fileVersions, projectVersion, program, lastProjectVersion, mutations,
                 lastMutation, lastCall>>
  /\ UNCHANGED otherVars

\* a getSourceFile that stores an empty text for a missing file and parses that
GetSourceFileStoring(fileName) ==
  /\ phase = "ready"
  /\ LET hit == MapHas(sourceFiles, fileName)
         text == IF readFile(fileName) = Undefined THEN <<>> ELSE readFile(fileName)[1]
     IN  /\ files' = IF hit THEN files ELSE writeFile(files, fileName, text)
         /\ sourceFiles' =
              IF hit THEN sourceFiles
              ELSE save(sourceFiles, createSourceFile(fileName, text, getSourceFileTarget))
  /\ UNCHANGED <<phase, rootFiles, optionsTarget, diagnostics, fileNames,
                 fileVersions, projectVersion, program, lastProjectVersion, writes, mutations,
                 lastMutation, lastCall>>
  /\ UNCHANGED otherVars

\* compilerHost.getSourceFile(fileName): a hit returns the cached file; a miss
\* parses sys.readFile(fileName), and createSourceFile throws on undefined text
GetSourceFile(fileName) ==
  /\ phase = "ready"
  /\ LET hit == MapHas(sourceFiles, fileName)
         throws == ~hit /\ readFile(fileName) = Undefined
     IN  sourceFiles' =
              IF hit \/ throws THEN sourceFiles
              ELSE save(sourceFiles,
                        createSourceFile(fileName, readFile(fileName)[1], getSourceFileTarget))
  /\ UNCHANGED <<phase, files, rootFiles, optionsTarget, diagnostics, fileNames,
                 fileVersions, projectVersion, program, lastProjectVersion, writes, mutations,
                 lastMutation, lastCall>>
  /\ UNCHANGED otherVars

\* the read operations of the store: fileExists, readFile, directoryExists and
\* readDirectory compute a value from the Map, whatever their argument, and
\* assign nothing
SysRead(op) ==
  /\ phase = "ready"
  /\ op \in {"fileExists", "readFile", "directoryExists", "readDirectory"}
  /\ UNCHANGED vars

\* the read operations of the language service host, called directly:
\* getProjectVersion, getScriptVersion, getScriptSnapshot and getScriptFileNames
\* compute a value from the host's state, whatever their argument, and assign
\* nothing
HostRead(op) ==
  /\ phase = "ready"
  /\ op \in {"getProjectVersion", "getScriptVersion", "getScriptSnapshot", "getScriptFileNames"}
  /\ UNCHANGED vars

\* any query on env.languageService: it synchronizes with the host first
LanguageServiceQuery ==
  /\ phase = "ready"
  /\ program' = SyncedProgram(fileNames)
  /\ lastProjectVersion' = Some(getProjectVersion)
  /\ UNCHANGED <<phase, files, rootFiles, optionsTarget, diagnostics, sourceFiles,
                 fileNames, fileVersions, projectVersion, writes, mutations, lastMutation,
                 lastCall>>
  /\ UNCHANGED otherVars

\* What the caller may pass as compilerOptions.target
TargetChoices == {Undefined, Some(ES3)}

\* What the caller may pass as the Map of createSystem and as rootFiles.  The
\* two paths are interchangeable: PathA is the root file, in the Map or not,
\* listed once or twice, and PathB is a file outside the root list.
InitFiles == {EmptyMap, [p \in {PathA} |-> <<"a">>]}
InitRootFiles == {<<PathA>>, <<PathA, PathA>>}

\* What an updateFile call on the previous text prev does with arguments a:
\* it throws (undefined) or it produces a new text.
UpdateOutcome(prev, a) ==
  IF ~SpanInRange(prev, a.start, a.length) /\ a.rejects
  THEN Undefined
  ELSE Some(NewText(prev, a.content, a.start, a.length))

\* The arguments of an updateFile call whose new text is one of Contents
UpdateCandidates(prev) ==
  {a \in [content : Fragments, start : 0..MaxLen, length : 0..MaxLen, rejects : BOOLEAN] :
     /\ SpanInRange(prev, a.start, a.length) => ~a.rejects
     /\ NewText(prev, a.content, a.start, a.length) \in Contents}

\* The arguments the model tries on fileName: one choice for each thing the
\* call can do.  Two calls with the same outcome lead to the same state, and a
\* call that throws on the missing previous source file never reads them.
UpdateArgs(fileName) ==
  LET prev == PrevFullContents(getProgramSourceFile(fileName))
  IN  IF prev = Undefined
      THEN {[content |-> <<>>, start |-> 0, length |-> 0, rejects |-> FALSE]}
      ELSE LET candidates == UpdateCandidates(prev[1])
           IN  {CHOOSE a \in candidates : UpdateOutcome(prev[1], a) = outcome :
                  outcome \in {UpdateOutcome(prev[1], a) : a \in candidates}}

\* the stores looked at by themselves are not part of a run of the environment
SysUnused == heap = <<>> /\ systems = <<>> /\ thrown = Undefined
HostUnused == returned = Undefined /\ everCached = {}
LibUnused == target = <<>> /\ libs = Undefined /\ fsMap = EmptyMap /\ libPc = "unused"
CdnUnused ==
  /\ version = <<>> /\ cache = FALSE /\ lzstring = FALSE /\ globalName = Undefined
  /\ storage = EmptyMap /\ inFlight = {} /\ texts = EmptyMap /\ fetched = {} /\ callNo = 0
OtherUnused == SysUnused /\ HostUnused /\ LibUnused /\ CdnUnused

Init ==
  /\ phase = "start"
  /\ files \in InitFiles
  /\ rootFiles \in InitRootFiles
  /\ optionsTarget \in TargetChoices
  /\ diagnostics \in 0..MaxDiagnostics
  /\ sourceFiles = EmptyMap
  /\ fileNames = <<>>
  /\ fileVersions = EmptyMap
  /\ projectVersion = 0
  /\ program = EmptyMap
  /\ lastProjectVersion = Undefined
  /\ writes = 0
  /\ mutations = 0
  /\ lastMutation = EmptyMap
  /\ lastCall = Call("createSystem", NoArg, FALSE)
  /\ OtherUnused

Next ==
  \/ CreateEnvironment
  \/ \E fileName \in Paths, content \in Contents : CreateFile(fileName, content)
  \/ \E fileName \in Paths : \E a \in UpdateArgs(fileName) :
        UpdateFile(fileName, a.content, a.start, a.length, a.rejects)
  \/ \E fileName \in Paths, contents \in Contents : SysWriteFile(fileName, contents)
  \/ \E fileName \in Paths : GetSourceFile(fileName)
  \/ LanguageServiceQuery
  \/ \E op \in {"fileExists", "readFile", "directoryExists", "readDirectory"} : SysRead(op)
  \/ \E op \in {"getProjectVersion", "getScriptVersion", "getScriptSnapshot",
                 "getScriptFileNames"} : HostRead(op)

Spec == Init /\ [][Next]_vars

\* ------------------------------------------------- createSystem by itself
\* The caller owns one Map and builds stores from it with createSystem(files);
\* it goes on changing its Map, writes through the stores and calls their
\* unsupported operations.
CallerMap == 1

\* a store that keeps the Map it was handed
SameMapRef(h, source) == source

\* files = new Map(files): the reference of a fresh Map object
NewMapRef(h, source) == Len(h) + 1

\* the Map a store reads and writes
systemFiles(i) == heap[systems[i]]

\* an error that does not say which method was called
notImplementedUnnamed(methodName) == Some(<<"Method is not implemented.">>)

\* notImplemented(methodName): throw new Error(`Method '${methodName}' is not implemented.`)
notImplemented(methodName) == Some(<<"Method '", methodName, "' is not implemented.">>)

\* the operations of the store that are notImplemented, each with the name it passes
notImplementedName ==
  [createDirectory |-> "createDirectory", exit |-> "exit",
   getExecutingFilePath |-> "getExecutingFilePath", write |-> "write"]

\* what is written: the store never looks into a content, two different ones do
StoreContents == {Word(0), Word(1)}

\* the environment is not part of a run of the stores by themselves
EnvUnused ==
  /\ phase = "unused"
  /\ files = EmptyMap /\ rootFiles = <<>> /\ optionsTarget = Undefined /\ diagnostics = 0
  /\ sourceFiles = EmptyMap /\ fileNames = <<>> /\ fileVersions = EmptyMap
  /\ projectVersion = 0 /\ program = EmptyMap /\ lastProjectVersion = Undefined
  /\ writes = 0 /\ mutations = 0 /\ lastMutation = EmptyMap
  /\ lastCall = Call("none", NoArg, FALSE)

\* createSystem(files) on the caller's Map
CreateSystem ==
  /\ Len(systems) < MaxSystems
  /\ LET ref == NewMapRef(heap, CallerMap)
     IN  /\ heap' = IF ref > Len(heap) THEN Append(heap, heap[CallerMap]) ELSE heap
         /\ systems' = Append(systems, ref)
  /\ thrown' = Undefined
  /\ UNCHANGED <<envVars, hostVars, libVars, cdnVars>>

\* writeFile(fileName, contents) on the i-th store
StoreWriteFile(i, fileName, contents) ==
  /\ i \in 1..Len(systems)
  /\ heap' = [heap EXCEPT ![systems[i]] = writeFile(@, fileName, contents)]
  /\ thrown' = Undefined
  /\ UNCHANGED <<systems, envVars, hostVars, libVars, cdnVars>>

\* the caller's own files.set(fileName, contents) on the Map it handed over
CallerSet(fileName, contents) ==
  /\ heap' = [heap EXCEPT ![CallerMap] = MapSet(@, fileName, contents)]
  /\ UNCHANGED <<systems, thrown, envVars, hostVars, libVars, cdnVars>>

\* createDirectory(), exit(), getExecutingFilePath() or write() on the i-th store
Unsupported(i, op) ==
  /\ i \in 1..Len(systems)
  /\ thrown' = notImplemented(notImplementedName[op])
  /\ UNCHANGED <<heap, systems, envVars, hostVars, libVars, cdnVars>>

SysInit ==
  /\ heap \in {<<files0>> : files0 \in InitFiles}
  /\ systems = <<>>
  /\ thrown = Undefined
  /\ EnvUnused /\ HostUnused /\ LibUnused /\ CdnUnused

SysNext ==
  \/ CreateSystem
  \/ \E i \in 1..MaxSystems, fileName \in Paths, contents \in StoreContents :
        StoreWriteFile(i, fileName, contents)
  \/ \E fileName \in Paths, contents \in StoreContents : CallerSet(fileName, contents)
  \/ \E i \in 1..MaxSystems, op \in DOMAIN notImplementedName : Unsupported(i, op)

SysSpec == SysInit /\ [][SysNext]_vars

\* ------------------------------------ createVirtualCompilerHost by itself
\* vHost = createVirtualCompilerHost(sys, compilerOptions, ts), its updateFile
\* and its compilerHost called directly
hostFrame == <<phase, rootFiles, optionsTarget, diagnostics, fileNames, fileVersions,
               projectVersion, program, lastProjectVersion, writes, mutations, lastMutation,
               lastCall, sysVars, libVars, cdnVars>>

\* the source files a caller hands to vHost.updateFile
HostUnits ==
  {createSourceFile(fileName, text, languageVersion) :
     fileName \in Paths, text \in Contents, languageVersion \in {ES3, ES2015}}

\* vHost.updateFile(sourceFile)
HostUpdateFile(sourceFile) ==
  /\ phase = "host"
  /\ returned' = Some(alreadyExists(sourceFile))
  /\ files' = HostWrite(files, sourceFile)
  /\ sourceFiles' = MapSet(sourceFiles, sourceFile.fileName, sourceFile)
  /\ everCached' = everCached \cup {sourceFile.fileName}
  /\ UNCHANGED hostFrame

\* vHost.compilerHost.getSourceFile(fileName)
HostGetSourceFile(fileName) ==
  /\ phase = "host"
  /\ LET hit == MapHas(sourceFiles, fileName)
         throws == ~hit /\ readFile(fileName) = Undefined
     IN  /\ sourceFiles' =
              IF hit \/ throws THEN sourceFiles
              ELSE save(sourceFiles,
                        createSourceFile(fileName, readFile(fileName)[1], getSourceFileTarget))
         /\ everCached' = IF hit \/ throws THEN everCached ELSE everCached \cup {fileName}
  /\ UNCHANGED <<files, returned, hostFrame>>

\* vHost.compilerHost.writeFile(fileName, contents), which is sys.writeFile
HostSysWriteFile(fileName, contents) ==
  /\ phase = "host"
  /\ files' = writeFile(files, fileName, contents)
  /\ UNCHANGED <<sourceFiles, returned, everCached, hostFrame>>

HostInit ==
  /\ phase = "host"
  /\ files \in InitFiles
  /\ optionsTarget \in TargetChoices
  /\ sourceFiles = EmptyMap
  /\ rootFiles = <<>> /\ diagnostics = 0 /\ fileNames = <<>> /\ fileVersions = EmptyMap
  /\ projectVersion = 0 /\ program = EmptyMap /\ lastProjectVersion = Undefined
  /\ writes = 0 /\ mutations = 0 /\ lastMutation = EmptyMap
  /\ lastCall = Call("createVirtualCompilerHost", NoArg, FALSE)
  /\ HostUnused /\ SysUnused /\ LibUnused /\ CdnUnused

HostNext ==
  \/ \E sourceFile \in HostUnits : HostUpdateFile(sourceFile)
  \/ \E fileName \in Paths : HostGetSourceFile(fileName)
  \/ \E fileName \in Paths, contents \in Contents : HostSysWriteFile(fileName, contents)

HostSpec == HostInit /\ [][HostNext]_vars

\* ------------------------------------------------ knownLibFilesForTarget
\* file names are written character by character
DTs == <<".", "d", ".", "t", "s">>
LibFile(stem) == <<"l", "i", "b", ".">> \o stem \o DTs

\* const files = [ 'lib.d.ts', 'lib.dom.d.ts', ..., 'lib.esnext.symbol.d.ts' ]
knownLibFiles ==
  <<<<"l", "i", "b">> \o DTs,
    LibFile(<<"d", "o", "m">>),
    LibFile(<<"d", "o", "m", ".", "i", "t", "e", "r", "a", "b", "l", "e">>),
    LibFile(<<"e", "s", "5">>),
    LibFile(<<"e", "s", "6">>),
    LibFile(<<"e", "s", "2", "0", "1", "5", ".", "c", "o", "l", "l", "e", "c", "t", "i", "o", "n">>),
    LibFile(<<"e", "s", "2", "0", "1", "5", ".", "c", "o", "r", "e">>),
    LibFile(<<"e", "s", "2", "0", "1", "5">>),
    LibFile(<<"e", "s", "2", "0", "1", "5", ".", "g", "e", "n", "e", "r", "a", "t", "o", "r">>),
    LibFile(<<"e", "s", "2", "0", "1", "5", ".", "i", "t", "e", "r", "a", "b", "l", "e">>),
    LibFile(<<"e", "s", "2", "0", "1", "5", ".", "p", "r", "o", "m", "i", "s", "e">>),
    LibFile(<<"e", "s", "2", "0", "1", "5", ".", "p", "r", "o", "x", "y">>),
    LibFile(<<"e", "s", "2", "0", "1", "5", ".", "r", "e", "f", "l", "e", "c", "t">>),
    LibFile(<<"e", "s", "2", "0", "1", "5", ".", "s", "y", "m", "b", "o", "l">>),
    LibFile(<<"e", "s", "2", "0", "1", "5", ".", "s", "y", "m", "b", "o", "l", ".", "w", "e", "l", "l", "k", "n", "o", "w", "n">>),
    LibFile(<<"e", "s", "2", "0", "1", "6", ".", "a", "r", "r", "a", "y", ".", "i", "n", "c", "l", "u", "d", "e">>),
    LibFile(<<"e", "s", "2", "0", "1", "6">>),
    LibFile(<<"e", "s", "2", "0", "1", "6", ".", "f", "u", "l", "l">>),
    LibFile(<<"e", "s", "2", "0", "1", "7">>),
    LibFile(<<"e", "s", "2", "0", "1", "7", ".", "f", "u", "l", "l">>),
    LibFile(<<"e", "s", "2", "0", "1", "7", ".", "i", "n", "t", "l">>),
    LibFile(<<"e", "s", "2", "0", "1", "7", ".", "o", "b", "j", "e", "c", "t">>),
    LibFile(<<"e", "s", "2", "0", "1", "7", ".", "s", "h", "a", "r", "e", "d", "m", "e", "m", "o", "r", "y">>),
    LibFile(<<"e", "s", "2", "0", "1", "7", ".", "s", "t", "r", "i", "n", "g">>),
    LibFile(<<"e", "s", "2", "0", "1", "7", ".", "t", "y", "p", "e", "d", "a", "r", "r", "a", "y", "s">>),
    LibFile(<<"e", "s", "2", "0", "1", "8", ".", "a", "s", "y", "n", "c", "g", "e", "n", "e", "r", "a", "t", "o", "r">>),
    LibFile(<<"e", "s", "2", "0", "1", "8", ".", "a", "s", "y", "n", "c", "i", "t", "e", "r", "a", "b", "l", "e">>),
    LibFile(<<"e", "s", "2", "0", "1", "8">>),
    LibFile(<<"e", "s", "2", "0", "1", "8", ".", "f", "u", "l", "l">>),
    LibFile(<<"e", "s", "2", "0", "1", "8", ".", "i", "n", "t", "l">>),
    LibFile(<<"e", "s", "2", "0", "1", "8", ".", "p", "r", "o", "m", "i", "s", "e">>),
    LibFile(<<"e", "s", "2", "0", "1", "8", ".", "r", "e", "g", "e", "x", "p">>),
    LibFile(<<"e", "s", "2", "0", "1", "9", ".", "a", "r", "r", "a", "y">>),
    LibFile(<<"e", "s", "2", "0", "1", "9">>),
    LibFile(<<"e", "s", "2", "0", "1", "9", ".", "f", "u", "l", "l">>),
    LibFile(<<"e", "s", "2", "0", "1", "9", ".", "o", "b", "j", "e", "c", "t">>),
    LibFile(<<"e", "s", "2", "0", "1", "9", ".", "s", "t", "r", "i", "n", "g">>),
    LibFile(<<"e", "s", "2", "0", "1", "9", ".", "s", "y", "m", "b", "o", "l">>),
    LibFile(<<"e", "s", "2", "0", "2", "0">>),
    LibFile(<<"e", "s", "2", "0", "2", "0", ".", "f", "u", "l", "l">>),
    LibFile(<<"e", "s", "2", "0", "2", "0", ".", "s", "t", "r", "i", "n", "g">>),
    LibFile(<<"e", "s", "2", "0", "2", "0", ".", "s", "y", "m", "b", "o", "l", ".", "w", "e", "l", "l", "k", "n", "o", "w", "n">>),
    LibFile(<<"e", "s", "n", "e", "x", "t", ".", "a", "r", "r", "a", "y">>),
    LibFile(<<"e", "s", "n", "e", "x", "t", ".", "a", "s", "y", "n", "c", "i", "t", "e", "r", "a", "b", "l", "e">>),
    LibFile(<<"e", "s", "n", "e", "x", "t", ".", "b", "i", "g", "i", "n", "t">>),
    LibFile(<<"e", "s", "n", "e", "x", "t">>),
    LibFile(<<"e", "s", "n", "e", "x", "t", ".", "f", "u", "l", "l">>),
    LibFile(<<"e", "s", "n", "e", "x", "t", ".", "i", "n", "t", "l">>),
    LibFile(<<"e", "s", "n", "e", "x", "t", ".", "s", "y", "m", "b", "o", "l">>)>>

\* the names ts.ScriptTarget[target] gives for the values of the enum
ScriptTargetNames ==
  {<<"E", "S", "3">>, <<"E", "S", "5">>, <<"E", "S", "2", "0", "1", "5">>,
   <<"E", "S", "2", "0", "1", "6">>, <<"E", "S", "2", "0", "1", "7">>,
   <<"E", "S", "2", "0", "1", "8">>, <<"E", "S", "2", "0", "1", "9">>,
   <<"E", "S", "2", "0", "2", "0">>, <<"E", "S", "N", "e", "x", "t">>,
   <<"J", "S", "O", "N">>, <<"L", "a", "t", "e", "s", "t">>}

\* String.prototype.toLowerCase() on the letters of those names
toLowerCaseChar(c) ==
  CASE c = "E" -> "e" [] c = "S" -> "s" [] c = "N" -> "n"
    [] c = "J" -> "j" [] c = "O" -> "o" [] c = "L" -> "l" [] OTHER -> c
toLowerCase(s) == [i \in 1..Len(s) |-> toLowerCaseChar(s[i])]

\* a cut at the first match: matches.shift()
shift(matches) == IF matches = <<>> THEN Undefined ELSE Some(matches[1])

\* matches.pop(): the last match, undefined for no match
pop(matches) == IF matches = <<>> THEN Undefined ELSE Some(matches[Len(matches)])

\* Array.prototype.indexOf(value): the first index from 0, -1 when there is none
indexOf(list, value) ==
  IF value = Undefined \/ \A i \in 1..Len(list) : list[i] # value[1]
  THEN -1
  ELSE (CHOOSE i \in 1..Len(list) :
          list[i] = value[1] /\ \A j \in 1..(i - 1) : list[j] # value[1]) - 1

knownLibFilesForTarget(targetToCut) ==
  LET searchString == <<"l", "i", "b", ".">> \o toLowerCase(targetToCut)
      Matches(f) == startsWith(f, searchString)
      matches == SelectSeq(knownLibFiles, Matches)
      cutIndex == indexOf(knownLibFiles, pop(matches))
  IN  SubSeq(knownLibFiles, 1, cutIndex + 1)

\* ------------------------------------------ createDefaultMapFromNodeModules
\* getLib(name): the text of the file of that name in the typescript package
getLib(name) == <<"text of ">> \o name

libFrame == <<envVars, sysVars, hostVars, cdnVars>>

\* const libs = knownLibFilesForTarget(target, ts)
KnownLibFilesForTarget ==
  /\ libPc = "start"
  /\ libs' = Some(knownLibFilesForTarget(target))
  /\ libPc' = "forEach"
  /\ UNCHANGED <<target, fsMap, libFrame>>

\* one round of libs.forEach(lib => fsMap.set('/' + lib, getLib(lib)))
NodeModulesSet ==
  /\ libPc = "forEach"
  /\ Cardinality(DOMAIN fsMap) < Len(libs[1])
  /\ LET lib == libs[1][Cardinality(DOMAIN fsMap) + 1]
     IN  fsMap' = MapSet(fsMap, <<"/">> \o lib, getLib(lib))
  /\ UNCHANGED <<target, libs, libPc, libFrame>>

\* return fsMap
NodeModulesReturn ==
  /\ libPc = "forEach"
  /\ Cardinality(DOMAIN fsMap) = Len(libs[1])
  /\ libPc' = "returned"
  /\ UNCHANGED <<target, libs, fsMap, libFrame>>

LibInit ==
  /\ target \in ScriptTargetNames
  /\ libs = Undefined /\ fsMap = EmptyMap /\ libPc = "start"
  /\ EnvUnused /\ SysUnused /\ HostUnused /\ CdnUnused

LibNext == KnownLibFilesForTarget \/ NodeModulesSet \/ NodeModulesReturn

LibSpec == LibInit /\ [][LibNext]_vars

\* ------------------------------------------------- createDefaultMapFromCDN
\* Calls of createDefaultMapFromCDN(target, version, cache, ts, lzstring) in one
\* host, one after the other.  storelike is the host's localStorage; the text
\* the CDN serves for a lib of a version is fixed.
Versions == {<<"3">>, <<"4">>}

\* `ts-lib-${version}-${lib}`
cacheKey(ver, lib) == <<"t", "s", "-", "l", "i", "b", "-">> \o ver \o <<"-">> \o lib

\* fetchlike(prefix + lib).then(resp => resp.text())
cdnText(ver, lib) == <<"text of ">> \o ver \o <<"/">> \o lib

\* lzstring.compressToUTF16 and decompressFromUTF16: the second undoes the
\* first and makes nothing of a string the first did not make
compressToUTF16(str) == <<"lz">> \o str
decompressFromUTF16(str) == IF str # <<>> /\ str[1] = "lz" THEN Tail(str) ELSE <<>>
zip(str) == IF lzstring THEN compressToUTF16(str) ELSE str
unzip(str) == IF lzstring THEN decompressFromUTF16(str) ELSE str

\* the keys the loop at the head of cached() removes: of another version
staleKey(key, ver) ==
  /\ startsWith(key, <<"t", "s", "-", "l", "i", "b", "-">>)
  /\ ~startsWith(key, <<"t", "s", "-", "l", "i", "b", "-">> \o ver)
withoutStaleKeys(store, ver) == [key \in {k \in DOMAIN store : ~staleKey(k, ver)} |-> store[key]]

\* storelike.setItem(name, zip(t)): `name` is no variable of cached(), so it is
\* the global of that name; undefined stands for a host without one, where
\* reading it throws a ReferenceError
setItemKey(ver, lib) == globalName

\* the targets the calls are made with: those with at most MaxFetches lib files
CdnTargets == {t \in ScriptTargetNames : Len(knownLibFilesForTarget(t)) <= MaxFetches}

cdnFrame == <<envVars, sysVars, hostVars>>

\* createDefaultMapFromCDN(...) up to the promise it returns: uncached() starts
\* a fetch for every lib; cached() removes the keys of other versions, then
\* looks every lib up in the storage and starts a fetch for the ones not found
CdnCall(tgt, ver, useCache) ==
  /\ libPc \in {"idle", "resolved", "rejected"}
  /\ callNo < MaxCdnCalls
  /\ callNo' = callNo + 1
  /\ target' = tgt /\ version' = ver /\ cache' = useCache
  /\ libs' = Some(knownLibFilesForTarget(tgt))
  /\ fsMap' = EmptyMap
  /\ storage' = IF useCache THEN withoutStaleKeys(storage, ver) ELSE storage
  /\ LET found == {lib \in Range(libs'[1]) :
                     useCache /\ Truthy(MapGet(storage', cacheKey(ver, lib)))}
     IN  /\ inFlight' = Range(libs'[1]) \ found
         /\ fetched' = inFlight'
         /\ texts' = [lib \in found |-> unzip(storage'[cacheKey(ver, lib)])]
  /\ libPc' = "pending"
  /\ UNCHANGED <<lzstring, globalName, cdnFrame>>

\* the fetch of lib resolves: .then(t => { storelike.setItem(name, zip(t)); return t })
\* in cached(), the text alone in uncached().  A callback that throws rejects
\* the promise of the call; the callbacks of the other fetches throw the same
\* way before they write anything.
FetchResolve(lib) ==
  /\ libPc = "pending"
  /\ lib \in inFlight
  /\ LET key == setItemKey(version, lib)
         t == cdnText(version, lib)
     IN  IF cache /\ key = Undefined
         THEN /\ libPc' = "rejected"
              /\ inFlight' = {}
              /\ UNCHANGED <<storage, texts>>
         ELSE /\ storage' = IF cache THEN MapSet(storage, key[1], zip(t)) ELSE storage
              /\ texts' = MapSet(texts, lib, t)
              /\ inFlight' = inFlight \ {lib}
              /\ libPc' = libPc
  /\ UNCHANGED <<target, libs, fsMap, version, cache, lzstring, globalName, fetched, callNo,
                 cdnFrame>>

\* Promise.all(...).then(contents => contents.forEach(... fsMap.set('/' + files[index], text)))
\* and func().then(() => fsMap)
CdnResolve ==
  /\ libPc = "pending"
  /\ inFlight = {}
  /\ fsMap' = [path \in {<<"/">> \o lib : lib \in Range(libs[1])} |-> texts[Tail(path)]]
  /\ libPc' = "resolved"
  /\ UNCHANGED <<target, libs, version, cache, lzstring, globalName, storage, inFlight,
                 texts, fetched, callNo, cdnFrame>>

\* what the storage holds before the first call: nothing, or a lib of an older version
InitStorage ==
  {EmptyMap, [key \in {cacheKey(<<"2">>, knownLibFiles[1])} |-> <<"text of an older version">>]}

CdnInit ==
  /\ libPc = "idle"
  /\ target = <<>> /\ libs = Undefined /\ fsMap = EmptyMap
  /\ version = <<>> /\ cache = FALSE
  /\ lzstring \in BOOLEAN
  /\ globalName \in {Undefined, Some(<<>>)}
  /\ storage \in InitStorage
  /\ inFlight = {} /\ texts = EmptyMap /\ fetched = {} /\ callNo = 0
  /\ EnvUnused /\ SysUnused /\ HostUnused

CdnNext ==
  \/ \E tgt \in CdnTargets, ver \in Versions, useCache \in BOOLEAN : CdnCall(tgt, ver, useCache)
  \/ \E lib \in Range(knownLibFiles) : FetchResolve(lib)
  \/ CdnResolve

CdnSpec == CdnInit /\ [][CdnNext]_vars

\* ------------------------------------------------------------- the steps
\* the store, the cache and the three pieces of host state a mutation touches
HostState == <<files, sourceFiles, projectVersion, fileVersions, fileNames>>

\* this step is a call of createFile or updateFile (op) on fileName: such a call
\* either returns, and is counted, or throws; a throwing call that repeats the
\* last one changes nothing at all
CallStep(op, fileName) ==
  /\ lastCall'.op = op /\ lastCall'.fileName = fileName
  /\ mutations' # mutations \/ lastCall' # lastCall

\* this step is a createFile or updateFile call on fileName that returned
MutationStep(fileName) ==
  /\ mutations' = mutations + 1
  /\ lastCall'.fileName = fileName /\ ~lastCall'.raised

NoDuplicates(names) == \A i, j \in 1..Len(names) : names[i] = names[j] => i = j
IsPrefix(s, t) == Len(s) <= Len(t) /\ SubSeq(t, 1, Len(s)) = s
Occurrences(names, fileName) == Cardinality({i \in 1..Len(names) : names[i] = fileName})

\* parseInt of a version token
RECURSIVE parseInt(_)
parseInt(token) ==
  IF Len(token) = 0 THEN 0
  ELSE 10 * parseInt(SubSeq(token, 1, Len(token) - 1))
       + (CHOOSE d \in 0..9 : Digit(d) = token[Len(token)])

\* ------------------------------------------------------------------- C1
\* C1: after createFile(P, C), for every content C and the empty one too,
\* readFile(P) is C and getScriptSnapshot(P) is a snapshot of C, not undefined.
C1_CreateThenRead ==
  [][\A fileName \in Paths, content \in Contents :
       CreateFile(fileName, content) =>
         /\ readFile(fileName)' = Some(content)
         /\ getScriptSnapshot(fileName)' = Some(content)]_vars

\* ------------------------------------------------------------------- C2
\* what createFile(fileName, content) would leave in the store
FilesAfterCreateFile(fileName, content) ==
  HostWrite(files, createSourceFile(fileName, content, mergedTarget))

\* C2: for a path created through the facade whose stored content is T, and a
\* span inside T, updateFile(P, F, S) returns and leaves the store as
\* createFile(P, T[0:start] + F + T[start+length:]) would leave it.
C2_PatchEquivalence ==
  [][\A fileName \in Paths :
       \A a \in [content : Fragments, start : 0..MaxLen, length : 0..MaxLen, rejects : {FALSE}] :
         /\ fileName \in routed
         /\ readFile(fileName) # Undefined
         /\ SpanInRange(readFile(fileName)[1], a.start, a.length)
         /\ NewText(readFile(fileName)[1], a.content, a.start, a.length) \in Contents
         /\ mutations + writes < MaxCalls
         /\ lastCall'.op = "updateFile"
         /\ UpdateFile(fileName, a.content, a.start, a.length, a.rejects)
         => /\ ~lastCall'.raised
            /\ files' = FilesAfterCreateFile(fileName,
                          NewText(readFile(fileName)[1], a.content, a.start, a.length))]_vars

\* ------------------------------------------------------------------- C3
\* C3: the project version is the number of createFile and updateFile calls
\* that have returned: 0 at first, one more after each, never less; and the
\* token getProjectVersion() reads as that number and differs from the token
\* of every smaller number.
C3_ProjectVersionCounts ==
  /\ projectVersion = mutations
  /\ parseInt(getProjectVersion) = mutations
  /\ \A earlier \in 0..(mutations - 1) : toString(earlier) # getProjectVersion

C3_Witness == mutations >= 2 /\ lastCall.op \in {"createFile", "updateFile"}

\* ------------------------------------------------------------------- C4
\* C4: every cached source file has the text the store holds for its path.
C4_CacheCoherence ==
  \A fileName \in DOMAIN sourceFiles :
    readFile(fileName) = Some(sourceFiles[fileName].text)

\* ------------------------------------------------------------------- C5
\* C5 as stated: updateFile on a path that never went through createFile or
\* updateFile throws and changes nothing of the store, the cache, the versions
\* and the root file list.
C5_UpdateNeverCreatedThrows ==
  [][\A fileName \in Paths :
       fileName \notin routed /\ CallStep("updateFile", fileName) =>
         lastCall'.raised /\ UNCHANGED HostState]_vars

\* C5 amended: updateFile on a path the store holds no content for throws and
\* changes nothing of the store, the cache, the versions and the root file list.
C5_UpdateAbsentThrows ==
  [][\A fileName \in Paths :
       readFile(fileName) = Undefined /\ CallStep("updateFile", fileName) =>
         lastCall'.raised /\ UNCHANGED HostState]_vars

C5_Witness ==
  /\ lastCall = Call("updateFile", PathB, TRUE)
  /\ readFile(PathB) = Undefined
  /\ projectVersion >= 1

\* ------------------------------------------------------------------- C6
\* every effect of a mutation of fileName is there after the step
Applied(fileName) ==
  /\ projectVersion' = projectVersion + 1
  /\ MapGet(fileVersions', fileName) = Some(toString(projectVersion'))
  /\ fileName \in Range(fileNames')
  /\ fileName \in DOMAIN sourceFiles'
  /\ MapGet(files', fileName) = Some(sourceFiles'[fileName].text)

\* C6: a createFile or updateFile call either returns with all its effects
\* applied (the store holds the new text, the cache holds the new unit, the
\* project version is one higher and stamped on the path) or throws with the
\* store, the cache, the versions and the root file list unchanged; and no
\* other step touches the versions or the root file list.
C6_Atomic ==
  [][/\ \A fileName \in Paths, op \in {"createFile", "updateFile"} :
          CallStep(op, fileName) =>
            IF lastCall'.raised THEN UNCHANGED HostState ELSE Applied(fileName)
     /\ phase = "ready" /\ mutations' = mutations =>
          UNCHANGED <<projectVersion, fileVersions, fileNames>>]_vars

C6_Witness ==
  /\ lastCall.op = "updateFile" /\ lastCall.raised
  /\ projectVersion >= 1
  /\ DOMAIN sourceFiles # {}

\* ------------------------------------------------------------------- C7
\* C7: a path that never went through createFile or updateFile has script
\* version '0', whatever was done to other paths.
C7_UntouchedIsBaseline ==
  phase = "ready" => \A fileName \in Paths \ routed : getScriptVersion(fileName) = <<"0">>

C7_Witness ==
  /\ phase = "ready"
  /\ PathA \in Range(fileNames) /\ PathA \notin routed
  /\ projectVersion >= 2

\* ------------------------------------------------------------------- C8
\* C8: exactly the paths that went through createFile or updateFile have a
\* recorded version; it is the token of the project version their last such
\* call produced, never the baseline '0'; no two paths share one; and the
\* tokens order the paths as their last calls were ordered.
C8_VersionsUnique ==
  /\ DOMAIN fileVersions = routed
  /\ \A f \in DOMAIN fileVersions :
       /\ fileVersions[f] = toString(lastMutation[f])
       /\ fileVersions[f] # <<"0">>
       /\ \A g \in DOMAIN fileVersions :
            /\ fileVersions[f] = fileVersions[g] => f = g
            /\ parseInt(fileVersions[f]) < parseInt(fileVersions[g])
                 <=> lastMutation[f] < lastMutation[g]
  /\ \A f \in routed : lastMutation[f] = mutations => MapGet(fileVersions, f) = Some(getProjectVersion)

C8_Witness ==
  /\ DOMAIN fileVersions = Paths
  /\ parseInt(fileVersions[PathB]) < parseInt(fileVersions[PathA])

\* ------------------------------------------------------------------- C9
\* C9 as stated: the root file list never holds a path twice.
C9_NoDuplicates == phase = "ready" => NoDuplicates(getScriptFileNames)

\* C9 amended: the root file list starts as the rootFiles argument; no step
\* removes or reorders an entry; a mutation of a listed path leaves the list
\* alone and a mutation of an unlisted path appends it once; so a list built
\* from duplicate-free rootFiles never holds a path twice.
C9_RootFileList ==
  /\ [](phase = "ready" => /\ IsPrefix(rootFiles, getScriptFileNames)
                           /\ NoDuplicates(rootFiles) => NoDuplicates(getScriptFileNames))
  /\ [][phase = "ready" =>
          /\ IsPrefix(fileNames, fileNames')
          /\ \A fileName \in Paths :
               MutationStep(fileName) =>
                 fileNames' = (IF Occurrences(fileNames, fileName) >= 1
                               THEN fileNames ELSE fileNames \o <<fileName>>)]_vars

C9_Witness ==
  /\ NoDuplicates(rootFiles)
  /\ fileNames = <<PathA, PathB>>
  /\ mutations >= 2

\* ------------------------------------------------------------------ C10
\* C10: constructing the environment throws exactly when the validation pass
\* reports a diagnostic; the construction leaves the store alone; and after a
\* failed construction nothing changes any more: the project version is 0, no
\* version is recorded and the root file list is the rootFiles argument.
C10_InvalidConfiguration ==
  /\ [][phase = "start" /\ phase' # "start" =>
          /\ phase' = (IF diagnostics >= 1 THEN "failed" ELSE "ready")
          /\ lastCall'.raised = (diagnostics >= 1)
          /\ files' = files]_vars
  /\ [](phase = "failed" =>
          /\ projectVersion = 0 /\ fileVersions = EmptyMap /\ fileNames = rootFiles
          /\ sourceFiles = EmptyMap /\ mutations = 0)
  /\ [][phase = "failed" => UNCHANGED <<phase, files, HostState>>]_vars

C10_Witness == phase = "failed" /\ diagnostics >= 1 /\ lastCall.raised

\* ------------------------------------------------------------------ C11
\* C11: a step of the environment that is no writeFile, no createFile or
\* updateFile that returned and no construction (so: a read of the store, a
\* read of the language service host, getSourceFile, a language service
\* query) leaves the store, the project version, the file versions and the
\* root file list unchanged; the cache keeps its entries and gains at most
\* entries parsed from the stored content.
C11_ReadsChangeNothing ==
  [][phase = "ready" /\ writes' = writes /\ mutations' = mutations =>
       /\ UNCHANGED <<files, projectVersion, fileVersions, fileNames>>
       /\ \A fileName \in DOMAIN sourceFiles :
            MapGet(sourceFiles', fileName) = MapGet(sourceFiles, fileName)
       /\ \A fileName \in DOMAIN sourceFiles' \ DOMAIN sourceFiles :
            readFile(fileName) = Some(sourceFiles'[fileName].text)]_vars

C11_Witness ==
  /\ writes = 0 /\ mutations = 1
  /\ DOMAIN sourceFiles = Paths /\ DOMAIN files = Paths /\ PathA \notin routed

\* ------------------------------------------------------------------ C12
\* C12: directoryExists(D) is true exactly when some stored path begins with
\* the characters of D; readDirectory('/') is the set of all stored paths and
\* readDirectory of any other string is empty.
C12_DirectoryListing ==
  /\ \A directory \in Directories :
       /\ directoryExists(directory) <=>
            \E path \in DOMAIN files :
              /\ Len(directory) <= Len(path)
              /\ \A i \in 1..Len(directory) : path[i] = directory[i]
       /\ directory # <<"/">> => readDirectory(directory) = {}
  /\ readDirectory(<<"/">>) = {path \in Paths : fileExists(path)}

C12_Witness ==
  /\ DOMAIN files = {PathB}
  /\ directoryExists(<<>>) /\ directoryExists(<<"/", "b">>)
  /\ ~directoryExists(<<"/", "a">>) /\ ~directoryExists(<<"b">>)
  /\ readDirectory(<<"/">>) = {PathB}

\* ------------------------------------------------------------------ C16
\* C16: every unit in the cache, the ones getSourceFile parsed on a miss too,
\* carries the configured language version, the one createFile parses at,
\* whatever target was configured (the lowest, 0, too); and a getSourceFile of
\* a cached path leaves the cached unit as it is.
C16_ParsedAtConfiguredTarget ==
  /\ [](\A fileName \in DOMAIN sourceFiles :
          sourceFiles[fileName].languageVersion = mergedTarget)
  /\ [][phase = "ready" /\ writes' = writes /\ mutations' = mutations =>
          \A fileName \in DOMAIN sourceFiles :
            MapGet(sourceFiles', fileName) = MapGet(sourceFiles, fileName)]_vars

C17_MutationsChangeVersion ==
  [][phase = "ready" /\ writes' = writes =>
       /\ getProjectVersion' = getProjectVersion =>
            files' = files /\ fileNames' = fileNames
       /\ \A fileName \in Paths :
            readFile(fileName)' # readFile(fileName) =>
              /\ getProjectVersion' # getProjectVersion
              /\ getScriptVersion(fileName)' # getScriptVersion(fileName)]_vars

C17_Witness ==
  /\ mutations = 2 /\ writes = 0
  /\ lastCall = Call("updateFile", PathA, FALSE)
  /\ readFile(PathA) = Some(<<>>)
  /\ getProjectVersion = <<"2">> /\ getScriptVersion(PathA) = <<"2">>

\* ------------------------------------------------------------------ C13
\* C13: createDirectory, exit, write and getExecutingFilePath, called on a
\* store in any state, throw an error whose message holds the name of the
\* operation called, and leave the contents of every store unchanged.
C13_UnsupportedThrows ==
  [][\A i \in 1..MaxSystems :
       \A op \in {"createDirectory", "exit", "write", "getExecutingFilePath"} :
         Unsupported(i, op) =>
           /\ thrown' # Undefined
           /\ \E part \in 1..Len(thrown'[1]) : thrown'[1][part] = op
           /\ heap' = heap /\ systems' = systems]_vars

C13_Witness ==
  /\ Len(systems) = 2
  /\ systemFiles(1) # EmptyMap
  /\ thrown = Some(<<"Method '", "exit", "' is not implemented.">>)

\* ------------------------------------------------------------------ C18
\* the stores whose contents this step changes
ChangedStores == {i \in 1..Len(systems) : heap'[systems'[i]] # heap[systems[i]]}

\* C18: a store starts with the contents the caller's Map has when
\* createSystem is called, and from then on the caller's Map and the stores
\* are apart: a step changes the contents of at most one of them, so a write
\* through a store changes neither the caller's Map nor another store, and a
\* change of the caller's Map changes no store.
C18_PrivateCopy ==
  [][/\ IsPrefix(systems, systems')
     /\ Len(systems') = Len(systems) + 1 =>
          /\ heap'[systems'[Len(systems')]] = heap[CallerMap]
          /\ heap'[CallerMap] = heap[CallerMap]
          /\ ChangedStores = {}
     /\ Len(systems') = Len(systems) =>
          Cardinality(ChangedStores) + (IF heap'[CallerMap] # heap[CallerMap] THEN 1 ELSE 0) <= 1]_vars

C18_Witness ==
  /\ Len(systems) = 2
  /\ systemFiles(1) # systemFiles(2)
  /\ systemFiles(1) # heap[CallerMap]
  /\ systemFiles(2) # heap[CallerMap]

\* ------------------------------------------------------------------ C14
\* C14: vHost.updateFile(newUnit) returns true exactly when an earlier
\* updateFile or an earlier getSourceFile miss cached a unit for newUnit's
\* path; after the call the cache entry of the path is newUnit and the stored
\* content of the path is newUnit's text.
C14_UpdateFileReturn ==
  [][\A sourceFile \in HostUnits :
       HostUpdateFile(sourceFile) =>
         /\ returned' = Some(sourceFile.fileName \in everCached)
         /\ MapGet(sourceFiles', sourceFile.fileName) = Some(sourceFile)
         /\ MapGet(files', sourceFile.fileName) = Some(sourceFile.text)]_vars

C14_Witness ==
  /\ returned = Some(FALSE)
  /\ everCached = Paths
  /\ PathA \in DOMAIN sourceFiles /\ sourceFiles[PathA].languageVersion = ES2015
  /\ readFile(PathB) = Some(sourceFiles[PathB].text)

\* ------------------------------------------------------------------ C15
\* the same letter, whatever its case
SameLetter(c, d) ==
  \/ c = d
  \/ {c, d} \in {{"e", "E"}, {"s", "S"}, {"n", "N"}, {"j", "J"}, {"o", "O"}, {"l", "L"}}

\* the places in the catalog of the names that begin with 'lib.' and then the
\* letters of the target's name, in lower case
MatchingPlaces ==
  {k \in 1..Len(knownLibFiles) :
     LET f == knownLibFiles[k]
     IN  /\ Len(f) >= 4 + Len(target)
         /\ <<f[1], f[2], f[3], f[4]>> = <<"l", "i", "b", ".">>
         /\ \A i \in 1..Len(target) :
              SameLetter(f[4 + i], target[i]) /\ toLowerCaseChar(f[4 + i]) = f[4 + i]}

\* C15: knownLibFilesForTarget returns the catalog, in its order, up to and
\* with the last entry whose name begins with 'lib.' and the lower-cased name
\* of the target: always a prefix of the catalog, empty when no entry matches
\* and not empty when one does.
C15_CatalogPrefix ==
  libs # Undefined =>
    /\ IsPrefix(libs[1], knownLibFiles)
    /\ MatchingPlaces = {} => libs[1] = <<>>
    /\ MatchingPlaces # {} =>
         /\ Len(libs[1]) \in MatchingPlaces
         /\ \A k \in MatchingPlaces : k <= Len(libs[1])

C15_Witness ==
  /\ target = <<"E", "S", "2", "0", "1", "5">>
  /\ libs # Undefined
  /\ Len(libs[1]) = 15 /\ Cardinality(MatchingPlaces) = 10
  /\ libPc = "returned" /\ Cardinality(DOMAIN fsMap) = 15

\* ------------------------------------------------------------------ C19
\* C19: a call with the cache on ends resolved, never rejected; when it has
\* resolved, the storage holds every lib of the target under the key
\* 'ts-lib-<version>-<lib>' it is looked up with, so that the next call with
\* the same version and target fetches nothing; and every resolved call, with
\* or without the cache, leaves '/<lib>' -> text in the map for every lib of
\* knownLibFilesForTarget(target).
C19_CacheRoundTrip ==
  /\ [](/\ libPc # "rejected"
        /\ libPc = "resolved" =>
             /\ DOMAIN fsMap = {<<"/">> \o lib : lib \in Range(knownLibFilesForTarget(target))}
             /\ \A lib \in Range(libs[1]) : fsMap[<<"/">> \o lib] = cdnText(version, lib)
             /\ cache => \A lib \in Range(libs[1]) : cacheKey(version, lib) \in DOMAIN storage)
  /\ [][/\ libPc = "resolved" /\ cache
         /\ callNo' = callNo + 1
         /\ cache' /\ version' = version /\ target' = target
         => fetched' = {}]_vars
====
